---------------------------- MODULE Spec2Model ----------------------------
(***************************************************************************)
(* FitByte: the bearer-token auth gate (utils/jwt.rs), the registration    *)
(* handler with its duplicate-registration cache (handlers/auth.rs), the   *)
(* profile read (handlers/profile.rs) and the filtered activity listing    *)
(* (handlers/activity.rs), as a state machine over in-flight requests.     *)
(*                                                                         *)
(* Every request lives in one slot of `reqs`; a slot serves one request.   *)
(* Each await point of a handler is a step boundary: a store statement,    *)
(* an offloaded (spawn_blocking) task and the code after it are separate   *)
(* steps, so other requests and the clock may move in between.             *)
(***************************************************************************)
EXTENDS Integers, Sequences, FiniteSets, TLC

VARIABLES
    reqs,          \* slot -> the request being served there (locals, position, response)
    now,           \* Utc::now().timestamp()
    users,         \* table users: rows [user_id, email, password]
    activities,    \* table activities
    EMAIL_CACHE,   \* the process-wide moka cache (set of cached keys)
    uuid_seq       \* entropy of Uuid::now_v7: number of ids handed out

vars == <<reqs, now, users, activities, EMAIL_CACHE, uuid_seq>>

---------------------------------------------------------------------------
(* Bounds of the model *)

NumReqs == 2
MaxTicks == 2
StartTime == 1000
NumVariants == 3

Reqs == 1..NumReqs

(* Program constants *)

DefaultLimit == 5
DefaultOffset == 0
Leeway == 60
RegisterTtl == 3600
LoginTtl == 604800
BcryptCost == 10
MinPasswordLen == 8
MaxPasswordLen == 32
CacheCapacity == 10000

---------------------------------------------------------------------------
(* Option<T> *)

Some(x) == [some |-> TRUE, v |-> x]
NoneStr == [some |-> FALSE, v |-> ""]
NoneInt == [some |-> FALSE, v |-> 0]

Min(a, b) == IF a < b THEN a ELSE b
Max(a, b) == IF a > b THEN a ELSE b

(* i32::to_string / usize::to_string: the decimal rendering *)
Digit(d) ==
    CASE d = 0 -> "0" [] d = 1 -> "1" [] d = 2 -> "2" [] d = 3 -> "3"
      [] d = 4 -> "4" [] d = 5 -> "5" [] d = 6 -> "6" [] d = 7 -> "7"
      [] d = 8 -> "8" [] d = 9 -> "9"

RECURSIVE NatToString(_)
NatToString(n) ==
    IF n < 10 THEN Digit(n) ELSE NatToString(n \div 10) \o Digit(n % 10)

I32ToString(n) == IF n < 0 THEN "-" \o NatToString(-n) ELSE NatToString(n)

(* Uuid's Display: user ids are numbered, rendered in the hyphenated form *)
UuidToString(u) == "00000000-0000-7000-8000-00000" \o NatToString(1000000 + u)

---------------------------------------------------------------------------
(* Responses *)

NoResp == [status |-> 0, error |-> ""]
Resp(status, msg) == [status |-> status, error |-> msg]

(* errors/mod.rs: the status and body of each AppError *)
AppError(kind, msg) ==
    CASE kind = "NotFound" -> Resp(404, msg)
      [] kind = "Unauthorized" -> Resp(401, msg)
      [] kind = "Conflict" -> Resp(409, msg)
      [] kind = "InternalServerError" -> Resp(500, msg)
      [] kind = "BadRequest" -> Resp(400, msg)

---------------------------------------------------------------------------
(* Tokens and claims (utils/jwt.rs) *)

JWT_SECRET == "secret"

(* main.rs refuses to start without a non-empty JWT_SECRET *)
EnvHasJwtSecret == JWT_SECRET # ""

(* What the Authorization header carries.  kind: "absent" (no header),     *)
(* "badheader" (not a Bearer credential), "garbage" (a Bearer credential   *)
(* that is no JWT), "jwt" (a JWT with claims sub, exp signed under key).   *)
NoToken == [kind |-> "absent", sub |-> "", exp |-> 0, key |-> ""]
Jwt(sub, exp, key) == [kind |-> "jwt", sub |-> sub, exp |-> exp, key |-> key]

NoClaims == [has |-> FALSE, sub |-> "", exp |-> 0]
Claims(sub, exp) == [has |-> TRUE, sub |-> sub, exp |-> exp]

NoResult == [ok |-> FALSE, err |-> "", sub |-> "", exp |-> 0]
Ok(sub, exp) == [ok |-> TRUE, err |-> "", sub |-> sub, exp |-> exp]
Err(kind) == [ok |-> FALSE, err |-> kind, sub |-> "", exp |-> 0]

DecodeUnverified(token, secret, t) ==
    IF token.kind # "jwt" THEN Err("InvalidToken")
    ELSE IF token.exp < t - Leeway THEN Err("ExpiredSignature")
    ELSE Ok(token.sub, token.exp)

(* jsonwebtoken::decode with Validation::new(HS256): structure, signature, *)
(* then exp against the clock with the default leeway.                     *)
Decode(token, secret, t) ==
    IF token.kind # "jwt" THEN Err("InvalidToken")
    ELSE IF token.key # secret THEN Err("InvalidSignature")
    ELSE IF token.exp < t - Leeway THEN Err("ExpiredSignature")
    ELSE Ok(token.sub, token.exp)

EncodeUnsigned(sub, exp, secret) == Jwt(sub, exp, "")

(* jsonwebtoken::encode of Claims {sub, exp} under the secret *)
Encode(sub, exp, secret) == Jwt(sub, exp, secret)

---------------------------------------------------------------------------
(* Requests *)

NoQuery ==
    [limit |-> NoneInt, offset |-> NoneInt, activity_type |-> NoneStr,
     done_at_from |-> NoneStr, done_at_to |-> NoneStr,
     calories_burned_min |-> NoneInt, calories_burned_max |-> NoneInt]

NoHash == [ok |-> FALSE, password |-> "", cost |-> 0, salt |-> 0]

IdleReq ==
    [route |-> "", pc |-> "idle",
     token |-> NoToken,            \* the Authorization header
     email |-> "", password |-> "",\* AuthRequest
     query |-> NoQuery,            \* GetActivitiesQuery
     decoded |-> NoResult,         \* what validate_token_async returned
     checked_at |-> 0,             \* validator's local `now`
     ext |-> NoClaims,             \* req.extensions(): the Claims inserted
     read_sub |-> "",              \* the claims.sub the handler read
     user_id |-> 0,                \* the GetUserId row fetched (0: none)
     sql |-> <<>>, params |-> <<>>, binds |-> <<>>,
     rows |-> {},                  \* the rows a listing returned
     password_hash |-> NoHash, new_user_id |-> 0,
     user_password |-> NoHash,     \* login: the GetUserPassword row fetched
     claims |-> NoClaims,          \* login: the Claims built for the token
     abandoned |-> FALSE,          \* an offloaded task of the request did not return
     activity_id |-> 0,            \* web::Path<Uuid>, or the id create_activity drew
     payload |-> [activity_type |-> NoneStr, done_at |-> NoneStr,
                  duration_in_minutes |-> NoneInt],   \* ActivityRequest
     done_at |-> 0,                \* the parsed done_at
     calories_burned |-> 0,        \* what calculate_calories_burned returned
     rows_affected |-> 0, db_err |-> "",   \* the INSERT's Result
     jwt |-> NoToken,              \* the token issued in the response
     out_email |-> "",             \* the email in the response body
     store_ops |-> 0,              \* statements run against the store
     resp |-> NoResp]

(* main.rs: the resources wrapped in HttpAuthentication::bearer(validator) *)
ProtectedRoutes ==
    {"GET /v1/user", "PATCH /v1/user", "POST /v1/file", "GET /v1/activity",
     "POST /v1/activity", "PATCH /v1/activity/{activityId}",
     "DELETE /v1/activity/{activityId}"}

PublicRoutes == {"POST /v1/login", "POST /v1/register"}

(* main.rs: where a routed request starts *)
Dispatch(route) == IF route \in ProtectedRoutes THEN "extract" ELSE "handler"

Finish(req, resp) == [req EXCEPT !.pc = "done", !.resp = resp]


---------------------------------------------------------------------------
(* The store *)

(* An sqlx error's Display, as the store reports a failed statement *)
DbErrorText == "error communicating with database: connection reset"
CastErrorText == "error returned from database: invalid input syntax for type timestamp with time zone"
LimitErrorText == "error returned from database: LIMIT must not be negative"

(* SELECT ... FROM users WHERE email = $1, fetch_optional *)
FindUser(email) == {u \in users : u.email = email}

UserIdOf(email) ==
    IF FindUser(email) = {} THEN 0 ELSE (CHOOSE u \in FindUser(email) : TRUE).user_id

(* $n::timestamptz: the instant a text denotes, -1 when the cast fails *)
ParseTimestamptz(s) ==
    CASE s = "2025-01-01T00:00:00Z" -> 1
      [] s = "2025-02-01T00:00:00Z" -> 2
      [] s = "2025-03-01T00:00:00Z" -> 3
      [] s = "2025-04-01T00:00:00Z" -> 4
      [] OTHER -> -1

---------------------------------------------------------------------------
(* get_activities: the statement text and the values built beside it *)

(* The statement text is kept as the sequence of its lexical pieces, in    *)
(* the order push_str wrote them: literal SQL and placeholders $n.         *)
Ph(k) == "$" \o NatToString(k)

Placeholders == {Ph(k) : k \in 1..8}

PhNum(tok) == CHOOSE k \in 1..8 : Ph(k) = tok

(* `if let Some(x) = field { sql_query.push_str(frag); params.push(x) }` *)
PushIf(acc, opt, frag, val) ==
    IF opt.some
    THEN [sql |-> acc.sql \o frag, params |-> Append(acc.params, val)]
    ELSE acc

LimitDefaultTen(query) == IF query.limit.some THEN query.limit.v ELSE 10

Limit(query) == IF query.limit.some THEN query.limit.v ELSE DefaultLimit

Offset(query) == IF query.offset.some THEN query.offset.v ELSE DefaultOffset

PushPagination(acc, query) ==
    [sql |-> acc.sql \o <<" LIMIT ", Ph(7), " OFFSET ", Ph(8)>>,
     params |-> acc.params \o <<I32ToString(Limit(query)), I32ToString(Offset(query))>>]

BuildQuerySwapped(user_id, query) ==
    LET a0 == [sql |-> <<"SELECT * FROM activities WHERE user_id = ", Ph(1)>>,
               params |-> <<UuidToString(user_id)>>]
        a1 == PushIf(a0, query.activity_type,
                     <<" AND activity_type = ", Ph(2)>>, query.activity_type.v)
        a2 == PushIf(a1, query.done_at_to,
                     <<" AND done_at <= ", Ph(4), "::timestamptz">>, query.done_at_to.v)
        a3 == PushIf(a2, query.done_at_from,
                     <<" AND done_at >= ", Ph(3), "::timestamptz">>, query.done_at_from.v)
        a4 == PushIf(a3, query.calories_burned_min,
                     <<" AND calories_burned >= ", Ph(5)>>,
                     I32ToString(query.calories_burned_min.v))
        a5 == PushIf(a4, query.calories_burned_max,
                     <<" AND calories_burned <= ", Ph(6)>>,
                     I32ToString(query.calories_burned_max.v))
    IN  PushPagination(a5, query)

BuildQueryInterpolated(user_id, query) ==
    LET a0 == [sql |-> <<"SELECT * FROM activities WHERE user_id = ", Ph(1)>>,
               params |-> <<UuidToString(user_id)>>]
        a1 == PushIf(a0, query.activity_type,
                     <<" AND activity_type = '" \o query.activity_type.v \o "'">>,
                     query.activity_type.v)
        a2 == PushIf(a1, query.done_at_from,
                     <<" AND done_at >= ", Ph(3), "::timestamptz">>, query.done_at_from.v)
        a3 == PushIf(a2, query.done_at_to,
                     <<" AND done_at <= ", Ph(4), "::timestamptz">>, query.done_at_to.v)
        a4 == PushIf(a3, query.calories_burned_min,
                     <<" AND calories_burned >= ", Ph(5)>>,
                     I32ToString(query.calories_burned_min.v))
        a5 == PushIf(a4, query.calories_burned_max,
                     <<" AND calories_burned <= ", Ph(6)>>,
                     I32ToString(query.calories_burned_max.v))
    IN  PushPagination(a5, query)

BuildQuery(user_id, query) ==
    LET a0 == [sql |-> <<"SELECT * FROM activities WHERE user_id = ", Ph(1)>>,
               params |-> <<UuidToString(user_id)>>]
        a1 == PushIf(a0, query.activity_type,
                     <<" AND activity_type = ", Ph(2)>>, query.activity_type.v)
        a2 == PushIf(a1, query.done_at_from,
                     <<" AND done_at >= ", Ph(3), "::timestamptz">>, query.done_at_from.v)
        a3 == PushIf(a2, query.done_at_to,
                     <<" AND done_at <= ", Ph(4), "::timestamptz">>, query.done_at_to.v)
        a4 == PushIf(a3, query.calories_burned_min,
                     <<" AND calories_burned >= ", Ph(5)>>,
                     I32ToString(query.calories_burned_min.v))
        a5 == PushIf(a4, query.calories_burned_max,
                     <<" AND calories_burned <= ", Ph(6)>>,
                     I32ToString(query.calories_burned_max.v))
    IN  PushPagination(a5, query)

(* The .bind(...) chain: eight values, bound to $1..$8 by position *)
Binds(user_id, query) ==
    <<Some(user_id), query.activity_type, query.done_at_from, query.done_at_to,
      query.calories_burned_min, query.calories_burned_max,
      Some(Limit(query)), Some(Offset(query))>>

(* The store's reading of the statement: each predicate compares its       *)
(* column with the value bound to the placeholder written after it.        *)
BoundAt(sql, binds, i) == binds[PhNum(sql[i + 1])]

PredicateHolds(row, lit, b) ==
    CASE lit = "SELECT * FROM activities WHERE user_id = " -> b.some /\ row.user_id = b.v
      [] lit = " AND activity_type = " -> b.some /\ row.activity_type = b.v
      [] lit = " AND done_at >= " -> b.some /\ row.done_at >= ParseTimestamptz(b.v)
      [] lit = " AND done_at <= " -> b.some /\ row.done_at <= ParseTimestamptz(b.v)
      [] lit = " AND calories_burned >= " -> b.some /\ row.calories_burned >= b.v
      [] lit = " AND calories_burned <= " -> b.some /\ row.calories_burned <= b.v
      [] OTHER -> TRUE

PhPositions(sql) == {i \in 1..(Len(sql) - 1) : sql[i + 1] \in Placeholders}

RowMatches(row, sql, binds) ==
    \A i \in PhPositions(sql) : PredicateHolds(row, sql[i], BoundAt(sql, binds, i))

ClauseValue(sql, binds, lit) ==
    LET i == CHOOSE j \in PhPositions(sql) : sql[j] = lit IN BoundAt(sql, binds, i).v

StatementError(sql, binds) ==
    IF \E i \in PhPositions(sql) :
          /\ sql[i] \in {" AND done_at >= ", " AND done_at <= "}
          /\ BoundAt(sql, binds, i).some
          /\ ParseTimestamptz(BoundAt(sql, binds, i).v) < 0
    THEN CastErrorText
    ELSE IF ClauseValue(sql, binds, " LIMIT ") < 0 \/ ClauseValue(sql, binds, " OFFSET ") < 0
    THEN LimitErrorText
    ELSE ""

(* The row sets fetch_all may return: no ORDER BY, so any rows that match, *)
(* as many as OFFSET and LIMIT leave.                                      *)
SelectResults(sql, binds) ==
    LET matching == {row \in activities : RowMatches(row, sql, binds)}
        n == Min(ClauseValue(sql, binds, " LIMIT "),
                 Max(0, Cardinality(matching) - ClauseValue(sql, binds, " OFFSET ")))
    IN  {res \in SUBSET matching : Cardinality(res) = n}


---------------------------------------------------------------------------
(* The auth gate: HttpAuthentication::bearer(validator) *)

Set(r, req) == reqs' = [reqs EXCEPT ![r] = req]

(* The middleware's BearerAuth extraction: without a Bearer credential the *)
(* request is answered 401 and neither validator nor handler is called.    *)
ExtractBearer(r) ==
    /\ reqs[r].pc = "extract"
    /\ IF reqs[r].token.kind \in {"absent", "badheader"}
       THEN Set(r, Finish(reqs[r], Resp(401, "")))
       ELSE Set(r, [reqs[r] EXCEPT !.pc = "validate"])
    /\ UNCHANGED <<now, users, activities, EMAIL_CACHE, uuid_seq>>

(* validate_token_async: decode on the blocking pool; a task that does not *)
(* return (JoinError) is turned into ErrorKind::InvalidToken.              *)
ValidateTokenResult(token, joined, t) ==
    IF joined THEN Decode(token, JWT_SECRET, t) ELSE Err("InvalidToken")

(* validator up to the await: env::var("JWT_SECRET"), then the offload *)
ValidateTokenAsync(r) ==
    /\ reqs[r].pc = "validate"
    /\ IF ~EnvHasJwtSecret
       THEN Set(r, Finish(reqs[r], Resp(500, "JWT secret not configured")))
       ELSE \E joined \in BOOLEAN :
              Set(r, [reqs[r] EXCEPT !.pc = "match", !.abandoned = ~joined,
                        !.decoded = ValidateTokenResult(reqs[r].token, joined, now)])
    /\ UNCHANGED <<now, users, activities, EMAIL_CACHE, uuid_seq>>

(* validator's manual expiration check *)
ManuallyExpired(exp, t) == exp < t

(* validator's error for a failed validation *)
ValidatorError(kind) ==
    IF kind = "ExpiredSignature" THEN Resp(401, "Token expired")
    ELSE Resp(401, "Invalid token")

(* req.extensions_mut().insert(claims) *)
InsertClaims(req, claims) == [req EXCEPT !.ext = claims, !.pc = "handler"]

(* validator: the match on validate_token_async's result *)
ValidatorMatch(r) ==
    /\ reqs[r].pc = "match"
    /\ LET d == reqs[r].decoded IN
       IF d.ok
       THEN IF ManuallyExpired(d.exp, now)
            THEN Set(r, Finish([reqs[r] EXCEPT !.checked_at = now],
                               Resp(401, "Token expired")))
            ELSE Set(r, InsertClaims([reqs[r] EXCEPT !.checked_at = now],
                                     Claims(d.sub, d.exp)))
       ELSE Set(r, Finish(reqs[r], ValidatorError(d.err)))
    /\ UNCHANGED <<now, users, activities, EMAIL_CACHE, uuid_seq>>

(* The clock *)
Tick ==
    /\ now < StartTime + MaxTicks
    /\ now' = now + 1
    /\ UNCHANGED <<reqs, users, activities, EMAIL_CACHE, uuid_seq>>

---------------------------------------------------------------------------
(* GET /v1/user: get_profile *)

(* extensions.get::<Claims>() *)
GetClaims(r) == reqs[r].ext

GetProfile(r) ==
    /\ reqs[r].pc = "handler"
    /\ reqs[r].route = "GET /v1/user"
    /\ LET claims == GetClaims(r) IN
       IF ~claims.has
       THEN Set(r, Finish(reqs[r], AppError("Unauthorized", "Invalid token in claim")))
       ELSE \E db_ok \in BOOLEAN :
              LET q == [reqs[r] EXCEPT !.read_sub = claims.sub,
                                       !.store_ops = @ + 1] IN
              IF ~db_ok
              THEN Set(r, Finish(q, AppError("InternalServerError", "Database error")))
              ELSE IF FindUser(claims.sub) = {}
              THEN Set(r, Finish(q, AppError("NotFound", "User not found")))
              ELSE Set(r, Finish([q EXCEPT !.out_email = claims.sub,
                                           !.user_id = UserIdOf(claims.sub)],
                                 Resp(200, "")))
    /\ UNCHANGED <<now, users, activities, EMAIL_CACHE, uuid_seq>>

---------------------------------------------------------------------------
(* GET /v1/activity: get_activities *)

(* The user lookup by claims.sub *)
GetActivitiesFetchUser(r) ==
    /\ reqs[r].pc = "handler"
    /\ reqs[r].route = "GET /v1/activity"
    /\ LET claims == GetClaims(r)
           q == [reqs[r] EXCEPT !.read_sub = claims.sub, !.store_ops = @ + 1] IN
       \E db_ok \in BOOLEAN :
          IF ~db_ok
          THEN Set(r, Finish(q, AppError("InternalServerError",
                                         "Database error: " \o DbErrorText)))
          ELSE IF FindUser(claims.sub) = {}
          THEN Set(r, Finish(q, AppError("NotFound", "User not found")))
          ELSE Set(r, [q EXCEPT !.user_id = UserIdOf(claims.sub), !.pc = "list"])
    /\ UNCHANGED <<now, users, activities, EMAIL_CACHE, uuid_seq>>

(* Build the statement, bind, fetch_all, respond *)
GetActivitiesList(r) ==
    /\ reqs[r].pc = "list"
    /\ LET built == BuildQuery(reqs[r].user_id, reqs[r].query)
           binds == Binds(reqs[r].user_id, reqs[r].query)
           q == [reqs[r] EXCEPT !.sql = built.sql, !.params = built.params,
                                !.binds = binds, !.store_ops = @ + 1] IN
       \E db_ok \in BOOLEAN :
          IF ~db_ok
          THEN Set(r, Finish(q, AppError("InternalServerError",
                                         "Database error: " \o DbErrorText)))
          ELSE IF StatementError(built.sql, binds) # ""
          THEN Set(r, Finish(q, AppError("InternalServerError",
                          "Database error: " \o StatementError(built.sql, binds))))
          ELSE \E res \in SelectResults(built.sql, binds) :
                  Set(r, Finish([q EXCEPT !.rows = res], Resp(200, "")))
    /\ UNCHANGED <<now, users, activities, EMAIL_CACHE, uuid_seq>>


---------------------------------------------------------------------------
(* The store as seeded, and the requests that arrive *)

Alice == "alice@fit.io"
Bob == "bob@fit.io"
Carol == "carol@fit.io"

Hash(password, cost, salt) ==
    [ok |-> TRUE, password |-> password, cost |-> cost, salt |-> salt]

SeedUsers ==
    {[user_id |-> 1, email |-> Alice, password |-> Hash("alicepass1", BcryptCost, 1)],
     [user_id |-> 2, email |-> Bob, password |-> Hash("bobspass22", BcryptCost, 2)]}

SeedActivities ==
    {[activity_id |-> 1, user_id |-> 1, activity_type |-> "Running", done_at |-> 2,
      duration_in_minutes |-> 30, calories_burned |-> 300],
     [activity_id |-> 2, user_id |-> 1, activity_type |-> "Yoga", done_at |-> 1,
      duration_in_minutes |-> 10, calories_burned |-> 40],
     [activity_id |-> 3, user_id |-> 2, activity_type |-> "Cycling", done_at |-> 3,
      duration_in_minutes |-> 20, calories_burned |-> 160]}

NewRequest(route) == [IdleReq EXCEPT !.route = route, !.pc = Dispatch(route)]

(* GetActivitiesQuery: the optional filters a caller may supply *)
FilterNames ==
    {"activity_type", "done_at_from", "done_at_to", "calories_burned_min",
     "calories_burned_max"}

(* The k-th set of caller values *)
VariantOwner(k) == <<Alice, Bob, Alice, Carol>>[k]
VariantType(k) == <<"Running", "Yoga", "Cycling", "HIIT">>[k]
VariantFrom(k) ==
    <<"2025-01-01T00:00:00Z", "2025-02-01T00:00:00Z", "not-a-date",
      "2025-03-01T00:00:00Z">>[k]
VariantTo(k) ==
    <<"2025-04-01T00:00:00Z", "2025-02-01T00:00:00Z", "2025-03-01T00:00:00Z",
      "2025-01-01T00:00:00Z">>[k]
VariantMin(k) == <<40, 300, 0, 41>>[k]
VariantMax(k) == <<300, 100, 1000, 50>>[k]
VariantLimit(k) == <<1, 2, -1, 3>>[k]
VariantOffset(k) == <<1, 0, 2, 3>>[k]

QueryOf(S, k, hasLimit, hasOffset) ==
    [limit |-> IF hasLimit THEN Some(VariantLimit(k)) ELSE NoneInt,
     offset |-> IF hasOffset THEN Some(VariantOffset(k)) ELSE NoneInt,
     activity_type |-> IF "activity_type" \in S THEN Some(VariantType(k)) ELSE NoneStr,
     done_at_from |-> IF "done_at_from" \in S THEN Some(VariantFrom(k)) ELSE NoneStr,
     done_at_to |-> IF "done_at_to" \in S THEN Some(VariantTo(k)) ELSE NoneStr,
     calories_burned_min |->
        IF "calories_burned_min" \in S THEN Some(VariantMin(k)) ELSE NoneInt,
     calories_burned_max |->
        IF "calories_burned_max" \in S THEN Some(VariantMax(k)) ELSE NoneInt]

Queries ==
    {QueryOf(S, k, hl, ho) :
        S \in SUBSET FilterNames, k \in 1..NumVariants, hl \in BOOLEAN, ho \in BOOLEAN}

(* A listing request by the holder of a login token *)
ArriveGetActivities(r) ==
    /\ reqs[r].pc = "idle"
    /\ \E S \in SUBSET FilterNames, k \in 1..NumVariants, hl \in BOOLEAN, ho \in BOOLEAN :
          Set(r, [NewRequest("GET /v1/activity") EXCEPT
                    !.token = Encode(VariantOwner(k), StartTime + LoginTtl, JWT_SECRET),
                    !.query = QueryOf(S, k, hl, ho)])
    /\ UNCHANGED <<now, users, activities, EMAIL_CACHE, uuid_seq>>

---------------------------------------------------------------------------
(* The listing, one request at a time *)

QuerySlots == {1}

InitStore ==
    /\ reqs = [r \in Reqs |-> IdleReq]
    /\ now = StartTime
    /\ users = SeedUsers
    /\ activities = SeedActivities
    /\ EMAIL_CACHE = {}
    /\ uuid_seq = Cardinality(SeedUsers)

NextQuery ==
    \E r \in QuerySlots :
        \/ ArriveGetActivities(r)
        \/ ExtractBearer(r)
        \/ ValidateTokenAsync(r)
        \/ ValidatorMatch(r)
        \/ GetActivitiesFetchUser(r)
        \/ GetActivitiesList(r)

SpecQuery == InitStore /\ [][NextQuery]_vars


---------------------------------------------------------------------------
(* Properties of the statement built by get_activities *)

Built(r) == reqs[r].route = "GET /v1/activity" /\ reqs[r].sql # <<>>

Present(query) == {f \in FilterNames : query[f].some}

FilterOrder ==
    <<"activity_type", "done_at_from", "done_at_to", "calories_burned_min",
      "calories_burned_max">>

FilterLiteral(f) ==
    CASE f = "activity_type" -> " AND activity_type = "
      [] f = "done_at_from" -> " AND done_at >= "
      [] f = "done_at_to" -> " AND done_at <= "
      [] f = "calories_burned_min" -> " AND calories_burned >= "
      [] f = "calories_burned_max" -> " AND calories_burned <= "

(* The value a caller supplied for a filter, as text *)
FilterText(query, f) ==
    IF f \in {"calories_burned_min", "calories_burned_max"}
    THEN I32ToString(query[f].v)
    ELSE query[f].v

LimitText(query) == I32ToString(IF query.limit.some THEN query.limit.v ELSE 5)

OffsetText(query) == I32ToString(IF query.offset.some THEN query.offset.v ELSE 0)

(* The value that belongs to the piece of SQL written before a placeholder *)
FragmentText(req, lit) ==
    CASE lit = "SELECT * FROM activities WHERE user_id = " -> UuidToString(req.user_id)
      [] lit = " LIMIT " -> LimitText(req.query)
      [] lit = " OFFSET " -> OffsetText(req.query)
      [] OTHER -> FilterText(req.query, CHOOSE f \in FilterNames : FilterLiteral(f) = lit)

RECURSIVE PresentValues(_, _)
PresentValues(query, order) ==
    IF order = <<>> THEN <<>>
    ELSE (IF query[Head(order)].some THEN <<FilterText(query, Head(order))>> ELSE <<>>)
         \o PresentValues(query, Tail(order))

Occurrences(sql, tok) == Cardinality({i \in 1..Len(sql) : sql[i] = tok})

OptionalFragments(sql) ==
    {i \in 1..Len(sql) : \E f \in FilterNames : sql[i] = FilterLiteral(f)}

(* C1: for every subset of the optional filters, the parameter list built  *)
(* beside the SQL fragments is as long as the statement has placeholders,  *)
(* and the placeholder $k written for a fragment is the 1-based position   *)
(* of that fragment's value in the parameter list.                         *)
C1_PlaceholderIsParamPosition ==
    \A r \in Reqs : Built(r) =>
        /\ Len(reqs[r].params) = Cardinality(PhPositions(reqs[r].sql))
        /\ \A i \in PhPositions(reqs[r].sql) :
              LET k == PhNum(reqs[r].sql[i + 1]) IN
              /\ k <= Len(reqs[r].params)
              /\ reqs[r].params[k] = FragmentText(reqs[r], reqs[r].sql[i])

(* C2: the statement holds exactly one optional predicate fragment per     *)
(* supplied filter, and the parameter list is [owner], then the supplied   *)
(* filters' values in the order type, date-from, date-to, calories-min,    *)
(* calories-max, then [limit, offset].                                     *)
C2_ParamsInFixedOrder ==
    \A r \in Reqs : Built(r) =>
        LET q == reqs[r].query IN
        /\ \A f \in FilterNames :
              Occurrences(reqs[r].sql, FilterLiteral(f)) = (IF q[f].some THEN 1 ELSE 0)
        /\ Cardinality(OptionalFragments(reqs[r].sql)) = Cardinality(Present(q))
        /\ reqs[r].params =
              <<UuidToString(reqs[r].user_id)>> \o PresentValues(q, FilterOrder)
                 \o <<LimitText(q), OffsetText(q)>>
        /\ (Present(q) = {"activity_type"} =>
              reqs[r].params = <<UuidToString(reqs[r].user_id), q.activity_type.v,
                                 LimitText(q), OffsetText(q)>>)

C2_AllFiveFiltersBuilt ==
    \E r \in Reqs :
        /\ Built(r)
        /\ Present(reqs[r].query) = FilterNames
        /\ Len(reqs[r].params) = 8
        /\ reqs[r].resp.status = 200

(* C3: limit and offset are the last two entries of the parameter list and *)
(* LIMIT/OFFSET is the last part of the statement, whatever filters are    *)
(* present; omitted, they are 5 and 0.                                     *)
C3_PaginationLast ==
    \A r \in Reqs : Built(r) =>
        LET n == Len(reqs[r].params)
            m == Len(reqs[r].sql)
            q == reqs[r].query IN
        /\ n >= 3 /\ m >= 4
        /\ reqs[r].params[n - 1] = LimitText(q)
        /\ reqs[r].params[n] = OffsetText(q)
        /\ reqs[r].sql[m - 3] = " LIMIT " /\ reqs[r].sql[m - 2] \in Placeholders
        /\ reqs[r].sql[m - 1] = " OFFSET " /\ reqs[r].sql[m] \in Placeholders
        /\ Occurrences(reqs[r].sql, " LIMIT ") = 1
        /\ Occurrences(reqs[r].sql, " OFFSET ") = 1
        /\ BoundAt(reqs[r].sql, reqs[r].binds, m - 3).v
              = (IF q.limit.some THEN q.limit.v ELSE 5)
        /\ BoundAt(reqs[r].sql, reqs[r].binds, m - 1).v
              = (IF q.offset.some THEN q.offset.v ELSE 0)

C3_DefaultsWithFilters ==
    \E r \in Reqs :
        /\ Built(r)
        /\ Cardinality(Present(reqs[r].query)) = 2
        /\ ~reqs[r].query.limit.some /\ ~reqs[r].query.offset.some
        /\ reqs[r].params[Len(reqs[r].params) - 1] = "5"
        /\ reqs[r].resp.status = 200

(* C4: the statement text depends only on which filters are present: any   *)
(* request with the same filters present, whatever its values, owner,      *)
(* limit and offset, gets the identical text.                              *)
C4_TextIndependentOfValues ==
    \A r \in Reqs : Built(r) =>
        \A q2 \in Queries, u2 \in {u.user_id : u \in users} :
            Present(q2) = Present(reqs[r].query) => BuildQuery(u2, q2).sql = reqs[r].sql

C4_SameFiltersOtherValues ==
    \E r \in Reqs :
        /\ Built(r)
        /\ Present(reqs[r].query) = FilterNames
        /\ \E q2 \in Queries, u2 \in {u.user_id : u \in users} :
              /\ Present(q2) = FilterNames
              /\ u2 # reqs[r].user_id
              /\ \A f \in FilterNames : q2[f].v # reqs[r].query[f].v
              /\ Limit(q2) # Limit(reqs[r].query)


---------------------------------------------------------------------------
(* The auth gate under concurrent requests and a moving clock *)

(* Expiry claims around the clock's range: past the leeway, at the leeway, *)
(* just expired, expiring at the start, expiring while the model runs, and *)
(* a registration token's hour.                                            *)
ExpChoices ==
    {StartTime - Leeway - 1, StartTime - 1, StartTime, StartTime + 1,
     StartTime + RegisterTtl}

GateTokens ==
    {NoToken,
     [NoToken EXCEPT !.kind = "badheader"],
     [NoToken EXCEPT !.kind = "garbage"],
     Jwt(Alice, StartTime + RegisterTtl, "forged"),
     Jwt(Bob, StartTime - 1, "forged"),
     Jwt(Bob, StartTime + RegisterTtl, JWT_SECRET)}
    \cup {Jwt(Alice, e, JWT_SECRET) : e \in ExpChoices}

(* The protected route served behind the gate here; the gate's steps never *)
(* read the route, and main.rs wraps every protected resource in the same  *)
(* middleware.                                                             *)
GateRoutes == {"GET /v1/user"}

ArriveProtected(r) ==
    /\ reqs[r].pc = "idle"
    /\ \E route \in GateRoutes, token \in GateTokens :
          Set(r, [NewRequest(route) EXCEPT !.token = token])
    /\ UNCHANGED <<now, users, activities, EMAIL_CACHE, uuid_seq>>

NextGate ==
    \/ Tick
    \/ \E r \in Reqs :
        \/ ArriveProtected(r)
        \/ ExtractBearer(r)
        \/ ValidateTokenAsync(r)
        \/ ValidatorMatch(r)
        \/ GetProfile(r)

SpecGate == InitStore /\ [][NextGate]_vars


---------------------------------------------------------------------------
(* Properties of the auth gate *)

GateStep(r) == ExtractBearer(r) \/ ValidateTokenAsync(r) \/ ValidatorMatch(r)

HandlerStep(r) == GetProfile(r) \/ GetActivitiesFetchUser(r) \/ GetActivitiesList(r)

CorrectlySigned(token) == token.kind = "jwt" /\ token.key = JWT_SECRET

(* Through the gate: the claims were attached and the handler was reached *)
Authorized(r) == reqs[r].ext.has

(* Answered 401 by the gate *)
Rejected(r) == reqs[r].pc = "done" /\ ~reqs[r].ext.has /\ reqs[r].resp.status = 401

GateDecided(r) == reqs[r].pc \notin {"idle", "extract", "validate", "match"}

(* C5: the gate rejects every correctly signed token whose expiry is at or *)
(* before the time of the check, exp = now included: none is Authorized.   *)
C5_ExpiredAtOrBeforeNowRejected ==
    \A r \in Reqs :
        (CorrectlySigned(reqs[r].token) /\ Authorized(r))
            => reqs[r].token.exp > reqs[r].checked_at

(* C6: a request to a protected route without an Authorization header, or  *)
(* with a token whose signature does not verify, ends Rejected (401): no   *)
(* handler step runs or can run, nothing of the store is read for it, the  *)
(* gate can always take its next step, and once rejected the request takes *)
(* no further step.                                                        *)
C6_UnauthenticatedNeverReachesHandler ==
    \A r \in Reqs :
        (reqs[r].pc # "idle" /\ reqs[r].route \in ProtectedRoutes
            /\ ~CorrectlySigned(reqs[r].token))
        => /\ reqs[r].pc \in {"extract", "validate", "match", "done"}
           /\ ~ENABLED HandlerStep(r)
           /\ ~reqs[r].ext.has
           /\ reqs[r].store_ops = 0 /\ reqs[r].read_sub = "" /\ reqs[r].user_id = 0
           /\ users = SeedUsers /\ activities = SeedActivities
           /\ (reqs[r].pc # "done" => ENABLED GateStep(r))
           /\ (reqs[r].pc = "done" =>
                 /\ reqs[r].resp.status = 401
                 /\ ~ENABLED (GateStep(r) \/ HandlerStep(r)))

C6_HeaderlessAndForgedRejected ==
    \E r1 \in Reqs, r2 \in Reqs :
        /\ reqs[r1].token.kind = "absent" /\ Rejected(r1)
        /\ reqs[r2].token.kind = "jwt" /\ reqs[r2].token.key # JWT_SECRET
        /\ reqs[r2].token.exp > now /\ Rejected(r2)
        /\ reqs[r2].resp.error = "Invalid token"

(* C7: with a valid unexpired token the gate ends Authorized and the claim *)
(* in the request's context has exactly the token's subject; the handler   *)
(* reads the subject of its own request's token only.                      *)
C7_ValidTokenAuthorizedWithOwnSubject ==
    \A r \in Reqs :
        (CorrectlySigned(reqs[r].token) /\ reqs[r].token.exp > now /\ GateDecided(r))
        => /\ Authorized(r)
           /\ reqs[r].ext.sub = reqs[r].token.sub
           /\ (reqs[r].store_ops > 0 => reqs[r].read_sub = reqs[r].token.sub)

(* C8: whenever a token is present and validation fails, the response is   *)
(* the same whatever the cause: bad signature, malformed, expired.         *)
TokenPresent(r) == reqs[r].token.kind \in {"garbage", "jwt"}

C8_SameRejectionForEveryCause ==
    \A r1 \in Reqs, r2 \in Reqs :
        (TokenPresent(r1) /\ Rejected(r1) /\ TokenPresent(r2) /\ Rejected(r2))
            => reqs[r1].resp = reqs[r2].resp

(* C9: a correctly signed token validated after its expiry instant fails,  *)
(* and fails as expired, never as generically invalid.                     *)
C9_ExpiredTokenFailsAsExpired ==
    \A r \in Reqs :
        (CorrectlySigned(reqs[r].token) /\ reqs[r].token.exp < StartTime /\ GateDecided(r))
        => /\ Rejected(r)
           /\ reqs[r].resp.error = "Token expired"


---------------------------------------------------------------------------
(* POST /v1/register: register *)

Dave == "dave@fit.io"

(* #[validate(email)]: the inputs that are well-formed addresses *)
WellFormedEmails == {Alice, Bob, Carol, Dave}

(* AuthRequest::validate *)
ValidAuthRequest(email, password) ==
    /\ email \in WellFormedEmails
    /\ Len(password) >= MinPasswordLen
    /\ Len(password) <= MaxPasswordLen

(* EMAIL_CACHE.get(&email).is_some() *)
CacheHas(email) == email \in EMAIL_CACHE

(* The entries moka may evict from a cache over its capacity.  The victim   *)
(* follows from its frequency sketch and access order, which depend on     *)
(* traffic not kept here: any entry may go, the one just inserted too.     *)
(* Entries that no request names stand for one another.                    *)
EvictionVictims(cache) ==
    LET named == cache \cap WellFormedEmails
        rest == cache \ WellFormedEmails
    IN  named \cup (IF rest = {} THEN {} ELSE {CHOOSE k \in rest : TRUE})

CacheInsertDropped(email) == {EMAIL_CACHE}

(* EMAIL_CACHE.insert(email, true): the cache keeps at most its capacity *)
CacheInsertOutcomes(email) ==
    LET grown == EMAIL_CACHE \cup {email} IN
    IF Cardinality(grown) <= CacheCapacity
    THEN {grown}
    ELSE {grown \ {victim} : victim \in EvictionVictims(grown)}

(* validate, then the cache lookup *)
RegisterStart(r) ==
    /\ reqs[r].pc = "handler"
    /\ reqs[r].route = "POST /v1/register"
    /\ IF ~ValidAuthRequest(reqs[r].email, reqs[r].password)
       THEN Set(r, Finish(reqs[r], AppError("BadRequest", "validation failed")))
       ELSE IF CacheHas(reqs[r].email)
       THEN Set(r, Finish(reqs[r], AppError("Conflict", "Email exists (cached)")))
       ELSE Set(r, [reqs[r] EXCEPT !.pc = "hash"])
    /\ UNCHANGED <<now, users, activities, EMAIL_CACHE, uuid_seq>>

(* spawn_blocking(hash(&password, 10)): the salt is the call's own *)
RegisterHash(r) ==
    /\ reqs[r].pc = "hash"
    /\ \E joined \in BOOLEAN :
          IF ~joined
          THEN Set(r, Finish([reqs[r] EXCEPT !.abandoned = TRUE],
                             AppError("InternalServerError", "Hashing failed")))
          ELSE Set(r, [reqs[r] EXCEPT !.pc = "uuid",
                         !.password_hash = Hash(reqs[r].password, BcryptCost, 100 + r)])
    /\ UNCHANGED <<now, users, activities, EMAIL_CACHE, uuid_seq>>

(* spawn_blocking(Uuid::now_v7): an id never handed out before *)
RegisterUuid(r) ==
    /\ reqs[r].pc = "uuid"
    /\ \E joined \in BOOLEAN :
          IF ~joined
          THEN /\ Set(r, Finish([reqs[r] EXCEPT !.abandoned = TRUE],
                          AppError("InternalServerError", "UUID generation failed")))
               /\ UNCHANGED uuid_seq
          ELSE /\ Set(r, [reqs[r] EXCEPT !.pc = "insert", !.new_user_id = uuid_seq + 1])
               /\ uuid_seq' = uuid_seq + 1
    /\ UNCHANGED <<now, users, activities, EMAIL_CACHE>>

InsertLost(table, row) == [table |-> table, rows_affected |-> 1]

InsertAlways(table, row) == [table |-> table \cup {row}, rows_affected |-> 1]

(* INSERT INTO users ... ON CONFLICT (email) DO NOTHING *)
InsertIfAbsent(table, row) ==
    IF \E u \in table : u.email = row.email
    THEN [table |-> table, rows_affected |-> 0]
    ELSE [table |-> table \cup {row}, rows_affected |-> 1]

(* The INSERT as the store runs it *)
RegisterInsert(r) ==
    /\ reqs[r].pc = "insert"
    /\ \E db_ok \in BOOLEAN :
          IF ~db_ok
          THEN /\ Set(r, [reqs[r] EXCEPT !.pc = "inserted", !.db_err = DbErrorText,
                                         !.store_ops = @ + 1])
               /\ UNCHANGED users
          ELSE LET res == InsertIfAbsent(users,
                              [user_id |-> reqs[r].new_user_id, email |-> reqs[r].email,
                               password |-> reqs[r].password_hash]) IN
               /\ users' = res.table
               /\ Set(r, [reqs[r] EXCEPT !.pc = "inserted",
                            !.rows_affected = res.rows_affected, !.store_ops = @ + 1])
    /\ UNCHANGED <<now, activities, EMAIL_CACHE, uuid_seq>>

(* The match on the INSERT's result, and EMAIL_CACHE.insert *)
RegisterAfterInsert(r) ==
    /\ reqs[r].pc = "inserted"
    /\ IF reqs[r].db_err # ""
       THEN /\ Set(r, Finish(reqs[r], AppError("InternalServerError", reqs[r].db_err)))
            /\ UNCHANGED EMAIL_CACHE
       ELSE IF reqs[r].rows_affected = 0
       THEN /\ Set(r, Finish(reqs[r], AppError("Conflict", "Email already exists")))
            /\ UNCHANGED EMAIL_CACHE
       ELSE /\ EMAIL_CACHE' \in CacheInsertOutcomes(reqs[r].email)
            /\ Set(r, [reqs[r] EXCEPT !.pc = "token"])
    /\ UNCHANGED <<now, users, activities, uuid_seq>>

(* spawn_blocking(encode(...)) with exp one hour ahead, then 201 Created *)
RegisterToken(r) ==
    /\ reqs[r].pc = "token"
    /\ \E joined \in BOOLEAN :
          IF ~joined
          THEN Set(r, Finish([reqs[r] EXCEPT !.abandoned = TRUE],
                       AppError("InternalServerError", "Token generation failed")))
          ELSE Set(r, Finish([reqs[r] EXCEPT
                                !.jwt = Encode(reqs[r].email, now + RegisterTtl, JWT_SECRET),
                                !.out_email = reqs[r].email],
                             Resp(201, "")))
    /\ UNCHANGED <<now, users, activities, EMAIL_CACHE, uuid_seq>>

(* The AuthRequest bodies that arrive: a registered address whose cache    *)
(* entry is gone, two unregistered ones, a malformed address, a short      *)
(* password.                                                               *)
RegisterBodies ==
    {[email |-> e, password |-> "s3cretpass"] : e \in {Alice, Carol, Dave}}
    \cup {[email |-> "not-an-email", password |-> "s3cretpass"],
          [email |-> Carol, password |-> "short"]}

ArriveRegister(r) ==
    /\ reqs[r].pc = "idle"
    /\ \E body \in RegisterBodies :
          Set(r, [NewRequest("POST /v1/register") EXCEPT
                    !.email = body.email, !.password = body.password])
    /\ UNCHANGED <<now, users, activities, EMAIL_CACHE, uuid_seq>>

NextRegister ==
    \/ Tick
    \/ \E r \in Reqs :
        \/ ArriveRegister(r)
        \/ RegisterStart(r)
        \/ RegisterHash(r)
        \/ RegisterUuid(r)
        \/ RegisterInsert(r)
        \/ RegisterAfterInsert(r)
        \/ RegisterToken(r)

SpecRegister == InitStore /\ [][NextRegister]_vars


---------------------------------------------------------------------------
(* Properties of registration *)

IsRegister(r) == reqs[r].route = "POST /v1/register"

Done(r) == reqs[r].pc = "done"

(* The request passed validation and found no cache entry for its email *)
MissedCache(r) ==
    /\ IsRegister(r)
    /\ \/ reqs[r].pc \in {"hash", "uuid", "insert", "inserted", "token"}
       \/ /\ Done(r)
          /\ reqs[r].resp.status # 400
          /\ reqs[r].resp.error # "Email exists (cached)"

Created(r) == Done(r) /\ reqs[r].resp.status = 201

Conflicted(r) == Done(r) /\ reqs[r].resp.status = 409

UniqueEmails == \A u1 \in users, u2 \in users : u1.email = u2.email => u1 = u2

(* The identity a request's INSERT wrote *)
RowOf(r) ==
    [user_id |-> reqs[r].new_user_id, email |-> reqs[r].email,
     password |-> reqs[r].password_hash]

(* Every identity the store was started with or that an INSERT created *)
NothingRemoved ==
    /\ SeedUsers \subseteq users
    /\ \A r \in Reqs : reqs[r].rows_affected = 1 => RowOf(r) \in users

(* The register requests for one email *)
RegistersOf(e) == {r \in Reqs : IsRegister(r) /\ reqs[r].email = e}

Internal(r) == Done(r) /\ reqs[r].resp.status = 500

---------------------------------------------------------------------------
(* Registration in a process that has run for long: the cache is full *)

(* The emails of identities registered earlier in the life of the process *)
OtherEmail(i) == "user" \o NatToString(i) \o "@fit.io"

OtherEmails == {OtherEmail(i) : i \in 1..CacheCapacity}

LongRunUsers ==
    SeedUsers \cup
    {[user_id |-> Cardinality(SeedUsers) + i, email |-> OtherEmail(i),
      password |-> Hash("s3cretpass", BcryptCost, Cardinality(SeedUsers) + i)] :
        i \in 1..CacheCapacity}

(* After CacheCapacity registrations: each is stored and cached *)
InitLongRun ==
    /\ reqs = [r \in Reqs |-> IdleReq]
    /\ now = StartTime
    /\ users = LongRunUsers
    /\ activities = SeedActivities
    /\ EMAIL_CACHE = OtherEmails
    /\ uuid_seq = Cardinality(SeedUsers) + CacheCapacity

(* Two register requests, in a fresh process and in one whose cache is     *)
(* full; the clock plays no part in the cache.                             *)
CacheSlots == {1, 2}

NextCache ==
    \E r \in CacheSlots :
        \/ ArriveRegister(r)
        \/ RegisterStart(r)
        \/ RegisterHash(r)
        \/ RegisterUuid(r)
        \/ RegisterInsert(r)
        \/ RegisterAfterInsert(r)
        \/ RegisterToken(r)

SpecCache == (InitStore \/ InitLongRun) /\ [][NextCache]_vars

---------------------------------------------------------------------------
(* Properties of the duplicate-registration cache *)

(* The request's INSERT created the identity and EMAIL_CACHE.insert ran *)
Marked(r) ==
    IsRegister(r) /\ reqs[r].rows_affected = 1 /\ reqs[r].pc \in {"token", "done"}

AnsweredFromCache(r) ==
    Done(r) /\ reqs[r].resp = Resp(409, "Email exists (cached)")

(* A register request takes its first step with its email in the cache *)
StartsCached(r) ==
    /\ IsRegister(r) /\ reqs[r].pc = "handler"
    /\ ValidAuthRequest(reqs[r].email, reqs[r].password)
    /\ CacheHas(reqs[r].email)
    /\ reqs'[r] # reqs[r]

---------------------------------------------------------------------------
(* POST /v1/login: login *)

VerifyAlways(password, hashed) == TRUE

(* bcrypt::verify: hash the password under the stored hash's cost and salt *)
(* and compare                                                             *)
Verify(password, hashed) ==
    hashed.ok /\ Hash(password, hashed.cost, hashed.salt) = hashed

(* SELECT password FROM users WHERE email = $1, fetch_optional *)
PasswordOf(email) == (CHOOSE u \in FindUser(email) : TRUE).password

(* validate, then the password lookup *)
LoginStart(r) ==
    /\ reqs[r].pc = "handler"
    /\ reqs[r].route = "POST /v1/login"
    /\ IF ~ValidAuthRequest(reqs[r].email, reqs[r].password)
       THEN Set(r, Finish(reqs[r], AppError("BadRequest", "validation failed")))
       ELSE \E db_ok \in BOOLEAN :
              LET q == [reqs[r] EXCEPT !.store_ops = @ + 1] IN
              IF ~db_ok
              THEN Set(r, Finish(q, AppError("InternalServerError", "Database error")))
              ELSE IF FindUser(reqs[r].email) = {}
              THEN Set(r, Finish(q, AppError("NotFound", "Email not found")))
              ELSE Set(r, [q EXCEPT !.user_password = PasswordOf(reqs[r].email),
                                    !.pc = "verify"])
    /\ UNCHANGED <<now, users, activities, EMAIL_CACHE, uuid_seq>>

(* spawn_blocking(verify(password, &user.password)); on a match the Claims *)
(* are built with exp seven days ahead and encode is offloaded             *)
LoginVerify(r) ==
    /\ reqs[r].pc = "verify"
    /\ \E joined \in BOOLEAN :
          IF ~joined
          THEN Set(r, Finish([reqs[r] EXCEPT !.abandoned = TRUE],
                       AppError("InternalServerError", "Password verification error")))
          ELSE IF ~Verify(reqs[r].password, reqs[r].user_password)
          THEN Set(r, Finish(reqs[r], AppError("Unauthorized", "Invalid password")))
          ELSE Set(r, [reqs[r] EXCEPT !.pc = "login_token",
                         !.claims = Claims(reqs[r].email, now + LoginTtl)])
    /\ UNCHANGED <<now, users, activities, EMAIL_CACHE, uuid_seq>>

(* The offloaded encode returns, then 200 OK *)
LoginToken(r) ==
    /\ reqs[r].pc = "login_token"
    /\ \E joined \in BOOLEAN :
          IF ~joined
          THEN Set(r, Finish([reqs[r] EXCEPT !.abandoned = TRUE],
                       AppError("InternalServerError", "Token generation error")))
          ELSE Set(r, Finish([reqs[r] EXCEPT
                                !.jwt = Encode(reqs[r].claims.sub, reqs[r].claims.exp,
                                               JWT_SECRET),
                                !.out_email = reqs[r].email],
                             Resp(200, "")))
    /\ UNCHANGED <<now, users, activities, EMAIL_CACHE, uuid_seq>>

---------------------------------------------------------------------------
(* One client: register, register again, login with a wrong secret, login *)

ScriptRoutes ==
    <<"POST /v1/register", "POST /v1/register", "POST /v1/login", "POST /v1/login">>

ScriptSteps == 1..Len(ScriptRoutes)

(* The secrets a client may pick: well-formed ones and one too short *)
Secrets == {"s3cretpass", "wrongpass9", "short"}

(* The k-th request of the client is sent once the one before is answered: *)
(* the first picks an unregistered email u1 and a secret p1, the third     *)
(* carries another secret, the others repeat u1 and p1.                    *)
ArriveScripted(k) ==
    /\ reqs[k].pc = "idle"
    /\ IF k = 1 THEN TRUE ELSE reqs[k - 1].pc = "done"
    /\ \E e \in WellFormedEmails, p \in Secrets :
          /\ IF k = 1
             THEN FindUser(e) = {} /\ ValidAuthRequest(e, p)
             ELSE /\ e = reqs[1].email
                  /\ IF k = 3 THEN p # reqs[1].password ELSE p = reqs[1].password
          /\ Set(k, [NewRequest(ScriptRoutes[k]) EXCEPT !.email = e, !.password = p])
    /\ UNCHANGED <<now, users, activities, EMAIL_CACHE, uuid_seq>>

InitEndToEnd ==
    /\ reqs = [k \in ScriptSteps |-> IdleReq]
    /\ now = StartTime
    /\ users = SeedUsers
    /\ activities = SeedActivities
    /\ EMAIL_CACHE = {}
    /\ uuid_seq = Cardinality(SeedUsers)

NextEndToEnd ==
    \/ Tick
    \/ \E k \in ScriptSteps :
        \/ ArriveScripted(k)
        \/ RegisterStart(k)
        \/ RegisterHash(k)
        \/ RegisterUuid(k)
        \/ RegisterInsert(k)
        \/ RegisterAfterInsert(k)
        \/ RegisterToken(k)
        \/ LoginStart(k)
        \/ LoginVerify(k)
        \/ LoginToken(k)

SpecEndToEnd == InitEndToEnd /\ [][NextEndToEnd]_vars

---------------------------------------------------------------------------
(* Properties of the end-to-end sequence *)

(* The first k requests were answered, none with an Internal error *)
AnsweredThrough(k) ==
    \A j \in 1..k : reqs[j].pc = "done" /\ reqs[j].resp.status # 500

---------------------------------------------------------------------------
(* Properties of the offloaded work *)

(* C13: whenever a task offloaded to the blocking pool is abandoned, in    *)
(* hashing, verification, token generation or token validation, the        *)
(* request ends with an Internal error, never with an authorization        *)
(* failure, a verification failure or a success.                           *)
C13_AbandonedEndsInternal ==
    \A r \in DOMAIN reqs :
        (reqs[r].abandoned /\ reqs[r].pc = "done") => reqs[r].resp.status = 500


---------------------------------------------------------------------------
(* Properties of the error responses *)

(* What the store says of a failed statement (sqlx::Error's Display) *)
StoreErrorTexts == {DbErrorText, CastErrorText, LimitErrorText}

Contains(s, t) ==
    \E i \in 1..(Len(s) - Len(t) + 1) : SubSeq(s, i, i + Len(t) - 1) = t

(* C14: whenever a store operation of a handler fails, the response is an  *)
(* Internal error whose message holds nothing of the store's own error     *)
(* text.                                                                   *)
C14_StoreErrorNotEchoed ==
    \A r \in DOMAIN reqs :
        (reqs[r].pc = "done" /\ reqs[r].resp.status = 500)
            => \A t \in StoreErrorTexts : ~Contains(reqs[r].resp.error, t)


---------------------------------------------------------------------------
(* A token issued by login or register, then presented to the gate *)

(* utils/jwt.rs generate_token: Claims for the email, seven days ahead *)
GenerateToken(email, t) == Encode(email, t + LoginTtl, JWT_SECRET)

RoundTripRoutes ==
    <<"POST /v1/login", "GET /v1/user", "POST /v1/register", "GET /v1/user">>

RoundTripSteps == 1..Len(RoundTripRoutes)

(* The credentials of the identities in the store *)
SeedPassword(email) ==
    (CHOOSE u \in SeedUsers : u.email = email).password.password

(* A login by a registered identity, a register of a new one, and after    *)
(* each a request that presents the token just issued.                     *)
ArriveRoundTrip(k) ==
    /\ reqs[k].pc = "idle"
    /\ IF k = 1 THEN TRUE ELSE reqs[k - 1].pc = "done"
    /\ CASE RoundTripRoutes[k] = "POST /v1/login" ->
              \E u \in SeedUsers :
                 Set(k, [NewRequest(RoundTripRoutes[k]) EXCEPT
                           !.email = u.email, !.password = SeedPassword(u.email)])
         [] RoundTripRoutes[k] = "POST /v1/register" ->
              \E e \in WellFormedEmails :
                 /\ FindUser(e) = {}
                 /\ Set(k, [NewRequest(RoundTripRoutes[k]) EXCEPT
                              !.email = e, !.password = "s3cretpass"])
         [] OTHER ->
              /\ reqs[k - 1].jwt # NoToken
              /\ Set(k, [NewRequest(RoundTripRoutes[k]) EXCEPT
                           !.token = reqs[k - 1].jwt])
    /\ UNCHANGED <<now, users, activities, EMAIL_CACHE, uuid_seq>>

InitRoundTrip ==
    /\ reqs = [k \in RoundTripSteps |-> IdleReq]
    /\ now = StartTime
    /\ users = SeedUsers
    /\ activities = SeedActivities
    /\ EMAIL_CACHE = {}
    /\ uuid_seq = Cardinality(SeedUsers)

NextRoundTrip ==
    \/ Tick
    \/ \E k \in RoundTripSteps :
        \/ ArriveRoundTrip(k)
        \/ LoginStart(k)
        \/ LoginVerify(k)
        \/ LoginToken(k)
        \/ RegisterStart(k)
        \/ RegisterHash(k)
        \/ RegisterUuid(k)
        \/ RegisterInsert(k)
        \/ RegisterAfterInsert(k)
        \/ RegisterToken(k)
        \/ ExtractBearer(k)
        \/ ValidateTokenAsync(k)
        \/ ValidatorMatch(k)
        \/ GetProfile(k)

SpecRoundTrip == InitRoundTrip /\ [][NextRoundTrip]_vars

---------------------------------------------------------------------------
(* Properties of issue and validate *)

(* The request issued a token *)
Issued(k) == reqs[k].pc = "done" /\ reqs[k].jwt # NoToken

(* The time-to-live of the route's tokens *)
TtlOf(route) == IF route = "POST /v1/login" THEN LoginTtl ELSE RegisterTtl

(* The gate has answered the request that presented the token of k, and    *)
(* the validation task returned                                            *)
Validated(k) ==
    /\ reqs[k + 1].pc \notin {"idle", "extract", "validate", "match"}
    /\ ~reqs[k + 1].abandoned

---------------------------------------------------------------------------
(* The cache against the store *)

StoredEmails == {u.email : u \in users}

(* The step of request r that runs EMAIL_CACHE.insert *)
MarksCache(r) ==
    /\ IsRegister(r)
    /\ reqs[r].pc = "inserted" /\ reqs[r].db_err = "" /\ reqs[r].rows_affected = 1
    /\ reqs'[r].pc = "token"
    /\ EMAIL_CACHE' \subseteq EMAIL_CACHE \cup {reqs[r].email}
    /\ reqs[r].email \in StoredEmails

(* C16 as claimed: every cached email is the email of a stored identity,   *)
(* and a register that ended in Conflict, BadRequest or Internal did not   *)
(* insert into the cache.                                                  *)
C16_FailedRegisterNeverMarked ==
    /\ EMAIL_CACHE \subseteq StoredEmails
    /\ \A r \in DOMAIN reqs :
          (IsRegister(r) /\ Done(r) /\ reqs[r].resp.status \in {400, 409, 500})
             => ~Marked(r)

(* C16 amended: every cached email is the email of a stored identity; the  *)
(* cache changes only in the step of a register whose own INSERT affected  *)
(* a row, which adds that register's email (and may evict others); a       *)
(* register that ended in Conflict or BadRequest, or in Internal without   *)
(* its INSERT having affected a row, did not insert into the cache; and a  *)
(* Conflict answered from the cache is for a registered email.             *)
C16_CacheWithinStore ==
    /\ [](/\ EMAIL_CACHE \subseteq StoredEmails
          /\ \A r \in DOMAIN reqs :
                /\ (IsRegister(r) /\ Done(r) /\ reqs[r].resp.status \in {400, 409})
                      => ~Marked(r)
                /\ (IsRegister(r) /\ Done(r) /\ reqs[r].resp.status = 500 /\ Marked(r))
                      => reqs[r].resp.error = "Token generation failed"
                /\ AnsweredFromCache(r) => reqs[r].email \in StoredEmails)
    /\ [][EMAIL_CACHE' # EMAIL_CACHE => \E r \in DOMAIN reqs : MarksCache(r)]_vars

(* Carol was registered and marked; the next register of her email was     *)
(* answered from the cache.                                                *)
C16_CachedConflictForStoredEmail ==
    \E r1 \in Reqs, r2 \in Reqs :
        /\ Created(r1) /\ Marked(r1) /\ reqs[r1].email = Carol
        /\ AnsweredFromCache(r2) /\ reqs[r2].email = Carol
        /\ Carol \in StoredEmails /\ Carol \notin {u.email : u \in SeedUsers}


---------------------------------------------------------------------------
(* calculate_calories_burned, in i32 *)

(* a * b in i32 for 0 <= a < 2^15 and 0 <= b < 2^31, by 16-bit halves:     *)
(* hi is the upper half of the product before it is cut to 32 bits         *)
MulHalves(a, b) ==
    LET lo_full == a * (b % 65536)
        hi_full == a * (b \div 65536) + (lo_full \div 65536)
    IN  [lo |-> lo_full % 65536, hi |-> hi_full]

(* The product does not fit i32 *)
MulOverflows(a, b) == MulHalves(a, b).hi >= 32768

(* i32::wrapping_mul: the low 32 bits, read as two's complement *)
WrappingMul(a, b) ==
    LET h == MulHalves(a, b)
        hi == h.hi % 65536
    IN  IF hi >= 32768 THEN (hi - 65536) * 65536 + h.lo ELSE hi * 65536 + h.lo

RateYogaAsCycling(activity_type) ==
    CASE activity_type \in {"Walking", "Stretching"} -> 4
      [] activity_type \in {"Cycling", "Swimming", "Dancing", "Yoga"} -> 8
      [] activity_type \in {"Hiking", "Running", "HIIT", "JumpRope"} -> 10
      [] OTHER -> 0

(* The match arms of calculate_calories_burned: the factor of each type,   *)
(* 0 for the fallback arm                                                  *)
Rate(activity_type) ==
    CASE activity_type \in {"Walking", "Yoga", "Stretching"} -> 4
      [] activity_type \in {"Cycling", "Swimming", "Dancing"} -> 8
      [] activity_type \in {"Hiking", "Running", "HIIT", "JumpRope"} -> 10
      [] OTHER -> 0

(* calculate_calories_burned.  `checked` is the build's overflow-checks    *)
(* setting: with it an overflowing product panics, without it it wraps.    *)
CalculateCaloriesBurned(activity_type, duration, checked) ==
    IF Rate(activity_type) = 0
    THEN [ok |-> FALSE, panic |-> FALSE, v |-> 0]
    ELSE IF checked /\ MulOverflows(Rate(activity_type), duration)
    THEN [ok |-> FALSE, panic |-> TRUE, v |-> 0]
    ELSE [ok |-> TRUE, panic |-> FALSE, v |-> WrappingMul(Rate(activity_type), duration)]

---------------------------------------------------------------------------
(* ActivityRequest *)

(* payload.validate(): each field required; type and done_at not empty;    *)
(* duration at least 1                                                     *)
ValidActivityRequest(payload) ==
    /\ payload.activity_type.some /\ Len(payload.activity_type.v) >= 1
    /\ payload.done_at.some /\ Len(payload.done_at.v) >= 1
    /\ payload.duration_in_minutes.some /\ payload.duration_in_minutes.v >= 1

(* DateTime::parse_from_rfc3339: the instant, -1 when the text is no       *)
(* RFC 3339 date-time                                                      *)
ParseFromRfc3339(s) ==
    CASE s = "2025-01-01T00:00:00Z" -> 1
      [] s = "2025-02-01T00:00:00Z" -> 2
      [] s = "2025-03-01T00:00:00Z" -> 3
      [] s = "2025-04-01T00:00:00Z" -> 4
      [] OTHER -> -1

(* A handler that panicked: the connection is closed without a response *)
Panicked == Resp(0, "connection closed")

(* The statements on table activities *)

(* SELECT created_at FROM activities WHERE activity_id = $1 AND user_id = $2 *)
FindActivity(activity_id, user_id) ==
    {a \in activities : a.activity_id = activity_id /\ a.user_id = user_id}

(* INSERT INTO activities (...) VALUES (...) *)
InsertActivity(table, row) == table \cup {row}

(* UPDATE activities SET ... WHERE activity_id = $6 *)
UpdateActivityRows(table, activity_id, activity_type, done_at, duration, calories) ==
    {IF a.activity_id = activity_id
     THEN [a EXCEPT !.activity_type = activity_type, !.done_at = done_at,
                    !.duration_in_minutes = duration, !.calories_burned = calories]
     ELSE a : a \in table}

DeleteById(table, activity_id, user_id) ==
    {a \in table : ~(a.activity_id = activity_id)}

(* DELETE FROM activities WHERE activity_id = $1 AND user_id = $2 *)
DeleteActivityRows(table, activity_id, user_id) ==
    {a \in table : ~(a.activity_id = activity_id /\ a.user_id = user_id)}

(* What the handlers do after the payload is validated and the owner (and, *)
(* for an update, the activity) was found: parse done_at, compute the      *)
(* calories, and go on to the statement at `next`                          *)
ParseAndCalculate(req, next) ==
    LET p == req.payload
        done_at == ParseFromRfc3339(p.done_at.v) IN
    IF done_at < 0
    THEN {Finish(req, AppError("BadRequest", "Invalid date format"))}
    ELSE {LET c == CalculateCaloriesBurned(p.activity_type.v,
                                           p.duration_in_minutes.v, checked) IN
          IF c.panic THEN Finish(req, Panicked)
          ELSE IF ~c.ok
          THEN Finish(req, AppError("BadRequest", "Invalid activity type"))
          ELSE [req EXCEPT !.done_at = done_at, !.calories_burned = c.v, !.pc = next]
            : checked \in BOOLEAN}

---------------------------------------------------------------------------
(* POST /v1/activity: create_activity *)

(* validate, the user lookup, then done_at, the calories and the new id *)
CreateActivityFetchUser(r) ==
    /\ reqs[r].pc = "handler"
    /\ reqs[r].route = "POST /v1/activity"
    /\ IF ~ValidActivityRequest(reqs[r].payload)
       THEN /\ Set(r, Finish(reqs[r], AppError("BadRequest", "validation failed")))
            /\ UNCHANGED uuid_seq
       ELSE LET claims == GetClaims(r)
                q == [reqs[r] EXCEPT !.read_sub = claims.sub, !.store_ops = @ + 1] IN
            \E db_ok \in BOOLEAN :
               IF ~db_ok
               THEN /\ Set(r, Finish(q, AppError("InternalServerError", "Database error")))
                    /\ UNCHANGED uuid_seq
               ELSE IF FindUser(claims.sub) = {}
               THEN /\ Set(r, Finish(q, AppError("NotFound", "User not found")))
                    /\ UNCHANGED uuid_seq
               ELSE \E q2 \in ParseAndCalculate(
                                [q EXCEPT !.user_id = UserIdOf(claims.sub)], "insert_activity") :
                       IF q2.pc = "done"
                       THEN Set(r, q2) /\ UNCHANGED uuid_seq
                       ELSE /\ Set(r, [q2 EXCEPT !.activity_id =
                                          Cardinality(SeedActivities) + uuid_seq + 1])
                            /\ uuid_seq' = uuid_seq + 1
    /\ UNCHANGED <<now, users, activities, EMAIL_CACHE>>

(* The row create_activity inserts *)
NewActivity(req) ==
    [activity_id |-> req.activity_id, user_id |-> req.user_id,
     activity_type |-> req.payload.activity_type.v, done_at |-> req.done_at,
     duration_in_minutes |-> req.payload.duration_in_minutes.v,
     calories_burned |-> req.calories_burned]

(* The INSERT, then 201 Created *)
CreateActivityInsert(r) ==
    /\ reqs[r].pc = "insert_activity"
    /\ \E db_ok \in BOOLEAN :
          LET q == [reqs[r] EXCEPT !.store_ops = @ + 1] IN
          IF ~db_ok
          THEN /\ Set(r, Finish(q, AppError("InternalServerError", "Database error")))
               /\ UNCHANGED activities
          ELSE /\ activities' = InsertActivity(activities, NewActivity(reqs[r]))
               /\ Set(r, Finish([q EXCEPT !.rows_affected = 1], Resp(201, "")))
    /\ UNCHANGED <<now, users, EMAIL_CACHE, uuid_seq>>

---------------------------------------------------------------------------
(* PATCH /v1/activity/{activityId}: update_activity *)

(* validate, then the user lookup *)
UpdateActivityFetchUser(r) ==
    /\ reqs[r].pc = "handler"
    /\ reqs[r].route = "PATCH /v1/activity/{activityId}"
    /\ IF ~ValidActivityRequest(reqs[r].payload)
       THEN Set(r, Finish(reqs[r], AppError("BadRequest", "validation failed")))
       ELSE LET claims == GetClaims(r)
                q == [reqs[r] EXCEPT !.read_sub = claims.sub, !.store_ops = @ + 1] IN
            \E db_ok \in BOOLEAN :
               IF ~db_ok
               THEN Set(r, Finish(q, AppError("InternalServerError", "Database error")))
               ELSE IF FindUser(claims.sub) = {}
               THEN Set(r, Finish(q, AppError("NotFound", "User not found")))
               ELSE Set(r, [q EXCEPT !.user_id = UserIdOf(claims.sub),
                                     !.pc = "fetch_activity"])
    /\ UNCHANGED <<now, users, activities, EMAIL_CACHE, uuid_seq>>

(* The lookup of the activity by id and owner, then done_at and calories *)
UpdateActivityFetchActivity(r) ==
    /\ reqs[r].pc = "fetch_activity"
    /\ \E db_ok \in BOOLEAN :
          LET q == [reqs[r] EXCEPT !.store_ops = @ + 1] IN
          IF ~db_ok
          THEN Set(r, Finish(q, AppError("InternalServerError", "Database error")))
          ELSE IF FindActivity(reqs[r].activity_id, reqs[r].user_id) = {}
          THEN Set(r, Finish(q, AppError("NotFound", "Activity not found")))
          ELSE \E q2 \in ParseAndCalculate(q, "update_activity") : Set(r, q2)
    /\ UNCHANGED <<now, users, activities, EMAIL_CACHE, uuid_seq>>

(* The UPDATE, then 200 OK with the payload's values; the number of rows   *)
(* the UPDATE affected is not looked at                                    *)
UpdateActivityUpdate(r) ==
    /\ reqs[r].pc = "update_activity"
    /\ \E db_ok \in BOOLEAN :
          LET q == [reqs[r] EXCEPT !.store_ops = @ + 1] IN
          IF ~db_ok
          THEN /\ Set(r, Finish(q, AppError("InternalServerError", "Database error")))
               /\ UNCHANGED activities
          ELSE /\ activities' =
                     UpdateActivityRows(activities, reqs[r].activity_id,
                         reqs[r].payload.activity_type.v, reqs[r].done_at,
                         reqs[r].payload.duration_in_minutes.v, reqs[r].calories_burned)
               /\ Set(r, Finish(q, Resp(200, "")))
    /\ UNCHANGED <<now, users, EMAIL_CACHE, uuid_seq>>

---------------------------------------------------------------------------
(* DELETE /v1/activity/{activityId}: delete_activity *)

DeleteActivityFetchUser(r) ==
    /\ reqs[r].pc = "handler"
    /\ reqs[r].route = "DELETE /v1/activity/{activityId}"
    /\ LET claims == GetClaims(r)
           q == [reqs[r] EXCEPT !.read_sub = claims.sub, !.store_ops = @ + 1] IN
       \E db_ok \in BOOLEAN :
          IF ~db_ok
          THEN Set(r, Finish(q, AppError("InternalServerError", "Database error")))
          ELSE IF FindUser(claims.sub) = {}
          THEN Set(r, Finish(q, AppError("NotFound", "User not found")))
          ELSE Set(r, [q EXCEPT !.user_id = UserIdOf(claims.sub), !.pc = "delete_activity"])
    /\ UNCHANGED <<now, users, activities, EMAIL_CACHE, uuid_seq>>

(* The DELETE, then 200 OK whether or not a row was deleted *)
DeleteActivityDelete(r) ==
    /\ reqs[r].pc = "delete_activity"
    /\ \E db_ok \in BOOLEAN :
          LET q == [reqs[r] EXCEPT !.store_ops = @ + 1] IN
          IF ~db_ok
          THEN /\ Set(r, Finish(q, AppError("InternalServerError", "Database error")))
               /\ UNCHANGED activities
          ELSE /\ activities' =
                     DeleteActivityRows(activities, reqs[r].activity_id, reqs[r].user_id)
               /\ Set(r, Finish(q, Resp(200, "")))
    /\ UNCHANGED <<now, users, EMAIL_CACHE, uuid_seq>>


---------------------------------------------------------------------------
(* The activity requests that arrive *)

Payload(activity_type, done_at, duration) ==
    [activity_type |-> activity_type, done_at |-> done_at,
     duration_in_minutes |-> duration]

(* ActivityRequest bodies: two that are in order, an unknown type, a text  *)
(* that is no date, a duration whose calories do not fit i32, a duration   *)
(* of zero, a missing type                                                 *)
ActivityPayloads ==
    {Payload(Some("Yoga"), Some("2025-03-01T00:00:00Z"), Some(45)),
     Payload(Some("HIIT"), Some("2025-04-01T00:00:00Z"), Some(20)),
     Payload(Some("Zumba"), Some("2025-03-01T00:00:00Z"), Some(30)),
     Payload(Some("Running"), Some("yesterday"), Some(30)),
     Payload(Some("Cycling"), Some("2025-01-01T00:00:00Z"), Some(300000000)),
     Payload(Some("Yoga"), Some("2025-03-01T00:00:00Z"), Some(0)),
     Payload(NoneStr, Some("2025-03-01T00:00:00Z"), Some(30))}

(* The activity ids a client may put in the path: those it has seen *)
KnownActivityIds ==
    {a.activity_id : a \in SeedActivities} \cup {a.activity_id : a \in activities}

(* The listings asked for: no filter, and one type *)
ActivityQueries == {NoQuery, [NoQuery EXCEPT !.activity_type = Some("Yoga")]}

(* A request by the holder of a login token *)
Authenticated(route, email) ==
    [NewRequest(route) EXCEPT !.token = Encode(email, StartTime + LoginTtl, JWT_SECRET)]

ArriveActivity(r) ==
    /\ reqs[r].pc = "idle"
    /\ \E u \in SeedUsers :
          \/ \E p \in ActivityPayloads :
                Set(r, [Authenticated("POST /v1/activity", u.email) EXCEPT !.payload = p])
          \/ \E p \in ActivityPayloads, id \in KnownActivityIds :
                Set(r, [Authenticated("PATCH /v1/activity/{activityId}", u.email) EXCEPT
                          !.payload = p, !.activity_id = id])
          \/ \E id \in KnownActivityIds :
                Set(r, [Authenticated("DELETE /v1/activity/{activityId}", u.email) EXCEPT
                          !.activity_id = id])
          \/ \E q \in ActivityQueries :
                Set(r, [Authenticated("GET /v1/activity", u.email) EXCEPT !.query = q])
    /\ UNCHANGED <<now, users, activities, EMAIL_CACHE, uuid_seq>>

(* Two requests in flight *)
ActivitySlots == {1, 2}

NextActivity ==
    \E r \in ActivitySlots :
        \/ ArriveActivity(r)
        \/ ExtractBearer(r)
        \/ ValidateTokenAsync(r)
        \/ ValidatorMatch(r)
        \/ CreateActivityFetchUser(r)
        \/ CreateActivityInsert(r)
        \/ UpdateActivityFetchUser(r)
        \/ UpdateActivityFetchActivity(r)
        \/ UpdateActivityUpdate(r)
        \/ DeleteActivityFetchUser(r)
        \/ DeleteActivityDelete(r)
        \/ GetActivitiesFetchUser(r)
        \/ GetActivitiesList(r)

SpecActivity == InitStore /\ [][NextActivity]_vars


---------------------------------------------------------------------------
(* Properties of the activity handlers *)

(* The user the request's token names *)
CallerId(r) == UserIdOf(reqs[r].token.sub)

(* The request that takes the step *)
Acts(r) == reqs'[r] # reqs[r]

ChangesRows(route) ==
    route \in {"PATCH /v1/activity/{activityId}", "DELETE /v1/activity/{activityId}"}

(* C17: an activity row is modified or deleted only by a request whose     *)
(* token subject resolves to the row's user_id, a row is created under the *)
(* caller's user_id, and a listing returns only rows of the caller; a      *)
(* request on an activity id of another user leaves that row as it is.     *)
C17_RowsChangedOnlyByOwner ==
    /\ [](\A r \in DOMAIN reqs :
            (reqs[r].route = "GET /v1/activity" /\ reqs[r].pc = "done")
               => \A row \in reqs[r].rows : row.user_id = CallerId(r))
    /\ [][/\ \A a \in activities \ activities' :
                \E r \in DOMAIN reqs :
                   /\ Acts(r) /\ ChangesRows(reqs[r].route)
                   /\ reqs[r].activity_id = a.activity_id
                   /\ CallerId(r) = a.user_id
          /\ \A a \in activities' \ activities :
                \E r \in DOMAIN reqs : Acts(r) /\ CallerId(r) = a.user_id
          /\ \A r \in DOMAIN reqs :
                (Acts(r) /\ ChangesRows(reqs[r].route))
                   => \A a \in activities :
                         (a.activity_id = reqs[r].activity_id /\ a.user_id # CallerId(r))
                            => a \in activities']_vars

(* Alice's DELETE of Bob's activity was answered and his row is there;     *)
(* her DELETE of her own activity removed it.                              *)
C17_ForeignDeleteLeftRow ==
    \E r1 \in DOMAIN reqs, r2 \in DOMAIN reqs :
        /\ reqs[r1].route = "DELETE /v1/activity/{activityId}"
        /\ reqs[r1].token.sub = Alice /\ reqs[r1].pc = "done"
        /\ reqs[r1].resp.status = 200 /\ reqs[r1].store_ops > 1
        /\ \E a \in activities :
              a.activity_id = reqs[r1].activity_id /\ a.user_id = UserIdOf(Bob)
        /\ reqs[r2].route = "DELETE /v1/activity/{activityId}"
        /\ reqs[r2].token.sub = Alice /\ reqs[r2].pc = "done"
        /\ reqs[r2].resp.status = 200
        /\ \E a \in SeedActivities :
              /\ a.activity_id = reqs[r2].activity_id /\ a.user_id = UserIdOf(Alice)
              /\ \A b \in activities : b.activity_id # a.activity_id


(* The row update_activity describes in its 200 response *)
ReturnedActivity(req) ==
    [activity_id |-> req.activity_id, user_id |-> req.user_id,
     activity_type |-> req.payload.activity_type.v, done_at |-> req.done_at,
     duration_in_minutes |-> req.payload.duration_in_minutes.v,
     calories_burned |-> req.calories_burned]

(* C18: whenever update_activity returns success for an activity, the      *)
(* store holds, when the UPDATE completes, a row of that activity with the *)
(* returned type, done-at, duration and calories, whatever a concurrent    *)
(* delete_activity of the same user does.                                  *)
C18_UpdateSuccessMeansRowStored ==
    [][\A r \in DOMAIN reqs :
          (/\ reqs[r].pc = "update_activity"
           /\ reqs'[r].pc = "done" /\ reqs'[r].resp.status = 200)
          => ReturnedActivity(reqs[r]) \in activities']_vars


---------------------------------------------------------------------------
(* Properties of the stored calories *)

(* The ten activity types and their factors *)
KnownTypes ==
    {"Walking", "Yoga", "Stretching", "Cycling", "Swimming", "Dancing",
     "Hiking", "Running", "HIIT", "JumpRope"}

Factor(activity_type) ==
    IF activity_type \in {"Walking", "Yoga", "Stretching"} THEN 4
    ELSE IF activity_type \in {"Cycling", "Swimming", "Dancing"} THEN 8
    ELSE 10

(* Every stored activity has a known type and the calories of its type and *)
(* duration, in i32                                                        *)
CaloriesConsistent ==
    \A a \in activities :
        /\ a.activity_type \in KnownTypes
        /\ a.duration_in_minutes >= 1
        /\ a.calories_burned = WrappingMul(Factor(a.activity_type), a.duration_in_minutes)

(* A create or update whose payload names a type outside the ten *)
UnknownType(r) ==
    /\ reqs[r].route \in {"POST /v1/activity", "PATCH /v1/activity/{activityId}"}
    /\ reqs[r].payload.activity_type.some
    /\ reqs[r].payload.activity_type.v \notin KnownTypes

(* C19 as claimed: every stored activity has calories = rate(type) *       *)
(* duration in i32, and a create or update with another type is answered   *)
(* BadRequest and writes nothing.  Requests stopped by the gate or by a    *)
(* failed statement are left aside, so that what refutes the claim is a    *)
(* run in which nothing fails.                                             *)
C19_UnknownTypeIsBadRequest ==
    /\ [](/\ CaloriesConsistent
          /\ \A r \in DOMAIN reqs :
                (/\ UnknownType(r) /\ reqs[r].pc = "done"
                 /\ reqs[r].ext.has /\ reqs[r].resp.status # 500)
                => reqs[r].resp.status = 400)
    /\ [][\A r \in DOMAIN reqs :
             (UnknownType(r) /\ Acts(r)) => activities' = activities]_vars

(* C19 amended: the same, except that a create or update with another     *)
(* type never succeeds and writes nothing, and is answered BadRequest once *)
(* it is past the gate, the user lookup and, for an update, the lookup of  *)
(* the activity among the caller's; before that it is answered by whatever *)
(* stopped it (401 by the gate, NotFound for an activity that is not the   *)
(* caller's, Internal for a failed statement).                             *)
C19_CaloriesMatchTypeAndDuration ==
    /\ [](/\ CaloriesConsistent
          /\ \A r \in DOMAIN reqs :
                (UnknownType(r) /\ reqs[r].pc = "done") =>
                   /\ reqs[r].resp.status \in {400, 401, 404, 500}
                   /\ reqs[r].resp.status = 404 =>
                         /\ reqs[r].route = "PATCH /v1/activity/{activityId}"
                         /\ reqs[r].resp.error = "Activity not found"
                   /\ reqs[r].resp.status = 401 => ~reqs[r].ext.has
                   /\ reqs[r].resp.status = 500 => reqs[r].resp.error = "Database error"
          /\ \A r \in DOMAIN reqs :
                (UnknownType(r) /\ reqs[r].pc \in {"insert_activity", "update_activity"})
                   => FALSE)
    /\ [][\A r \in DOMAIN reqs :
             /\ (UnknownType(r) /\ Acts(r)) => activities' = activities
             /\ (/\ UnknownType(r) /\ Acts(r) /\ reqs'[r].pc = "done"
                 /\ \/ reqs[r].pc = "fetch_activity"
                    \/ reqs[r].pc = "handler" /\ reqs[r].route = "POST /v1/activity"
                 /\ reqs'[r].resp.status \notin {404, 500})
                => reqs'[r].resp.status = 400]_vars

(* An update with an unknown type, on an activity of the caller, was       *)
(* answered BadRequest; a create wrote a row whose calories wrapped.       *)
C19_UnknownTypeRefusedAndWrappedStored ==
    /\ \E r \in DOMAIN reqs :
          /\ UnknownType(r) /\ reqs[r].route = "PATCH /v1/activity/{activityId}"
          /\ reqs[r].resp = Resp(400, "Invalid activity type")
    /\ \E a \in activities :
          /\ MulOverflows(Factor(a.activity_type), a.duration_in_minutes)
          /\ a.calories_burned < 0

=============================================================================
